---- MODULE Spec2Model ----
(***************************************************************************)
(* Feature-flag service: the flag table (app/models.py), the request       *)
(* handlers (app/main.py), request validation (app/schemas.py) and the     *)
(* rollout evaluator (app/feature_flag_service.py).                        *)
(*                                                                         *)
(* Representation choices:                                                 *)
(*  - Optional[T] is a sequence: <<>> is None, <<v>> is the value v.        *)
(*  - The first 8 hex characters of a SHA-256 hexdigest are a sequence of  *)
(*    8 digit values 0..15; sha256_hexdigest tabulates them for the        *)
(*    combined keys "user:flag" of the users and flags below.              *)
(*  - A 32-bit unsigned integer does not fit a model integer, so naturals  *)
(*    are pairs <<hi, lo>> standing for hi * 65536 + lo with lo < 65536.   *)
(*  - The float returned by hash_user_flag is kept as the exact fraction   *)
(*    num / den.  For the integral percentages used here the IEEE double   *)
(*    comparison of the source agrees with the exact one.                  *)
(*  - The table is a sequence of rows in rowid order, the order in which   *)
(*    an unordered SELECT of all columns enumerates it; a new row gets the *)
(*    largest rowid and so is appended.                                    *)
(*  - memo is a history variable, not program state: one remembered        *)
(*    evaluation, dropped as soon as the record of its flag changes.  It   *)
(*    stays None except under DetSpec.                                     *)
(***************************************************************************)
EXTENDS Integers, Sequences, FiniteSets, TLC

VARIABLES flags, now, request, response, memo

vars == <<flags, now, request, response, memo>>

None == <<>>

Some(v) == <<v>>

(***************************************************************************)
(* Bounds and input sets                                                   *)
(***************************************************************************)
MaxClock == 1

Users == {"user-2116756218", "user-3605118390"}

Names == {"beta", "checkout-v2"}

Descriptions == {None, Some("new checkout")}

ValidRollouts == {None, Some(0), Some(100)}

BadRollouts == {Some(0 - 1), Some(101)}

(***************************************************************************)
(* Unsigned arithmetic on pairs <<hi, lo>>                                 *)
(***************************************************************************)
Radix == 65536

BigNorm(hi, lo) == <<hi + (lo \div Radix), lo % Radix>>

BigMul(a, k) == BigNorm(a[1] * k, a[2] * k)

BigLeq(a, b) == a[1] < b[1] \/ (a[1] = b[1] /\ a[2] <= b[2])

BigLess(a, b) == a[1] < b[1] \/ (a[1] = b[1] /\ a[2] < b[2])

\* int(hash_hex[:8], 16)
RECURSIVE int_base16(_)
int_base16(hex) ==
    IF hex = <<>> THEN <<0, 0>>
    ELSE LET rest == int_base16(SubSeq(hex, 1, Len(hex) - 1))
         IN  BigNorm(rest[1] * 16, rest[2] * 16 + hex[Len(hex)])

\* 0xFFFFFFFF
HashDivisor == <<65535, 65535>>

(***************************************************************************)
(* FeatureFlagService                                                      *)
(***************************************************************************)
combined(user_id, flag_name) == user_id \o ":" \o flag_name

\* hashlib.sha256(combined.encode('utf-8')).hexdigest()[:8] for the keys of
\* Users and Names
sha256_hexdigest ==
    "user-2116756218:beta" :> <<0, 0, 0, 0, 0, 0, 0, 0>> @@   \* 00000000
    "user-2116756218:checkout-v2" :> <<2, 3, 2, 8, 7, 14, 6, 7>> @@   \* 23287e67
    "user-3605118390:beta" :> <<15, 15, 15, 15, 15, 15, 15, 15>> @@   \* ffffffff
    "user-3605118390:checkout-v2" :> <<1, 9, 11, 14, 10, 6, 15, 8>>   \* 19bea6f8

\* Mutant: the key is built from a user id left over from the previous
\* request (hidden state) when there is one.
hash_user_flag_leftover(user_id, flag_name) ==
    LET user     == IF request.user_id # "" THEN request.user_id ELSE user_id
        hash_hex == sha256_hexdigest[combined(user, flag_name)]
        hash_int == int_base16(SubSeq(hash_hex, 1, 8))
    IN  [num |-> BigMul(hash_int, 100), den |-> HashDivisor]

\* The float (hash_int / 0xFFFFFFFF) * 100 as the fraction num / den.
hash_user_flag(user_id, flag_name) ==
    LET hash_hex == sha256_hexdigest[combined(user_id, flag_name)]
        hash_int == int_base16(SubSeq(hash_hex, 1, 8))
    IN  [num |-> BigMul(hash_int, 100), den |-> HashDivisor]

\* bucket <= p and bucket < p for a fraction bucket and an integer p >= 0
FloatLeq(bucket, p) == BigLeq(bucket.num, BigMul(bucket.den, p))

FloatLess(bucket, p) == BigLess(bucket.num, BigMul(bucket.den, p))

\* Mutant: the status check is missing.
is_flag_enabled_for_user_no_status(flag, user_id) ==
    IF flag.rollout_percentage = None THEN TRUE
    ELSE FloatLeq(hash_user_flag(user_id, flag.flag_name),
                  flag.rollout_percentage[1])

\* Mutant: a missing percentage is read as 0 (rollout_percentage or 0).
is_flag_enabled_for_user_none_as_zero(flag, user_id) ==
    IF ~flag.status THEN FALSE
    ELSE FloatLeq(hash_user_flag(user_id, flag.flag_name),
                  IF flag.rollout_percentage = None THEN 0
                  ELSE flag.rollout_percentage[1])

is_flag_enabled_for_user(flag, user_id) ==
    IF ~flag.status THEN FALSE
    ELSE IF flag.rollout_percentage = None THEN TRUE
    ELSE FloatLeq(hash_user_flag(user_id, flag.flag_name),
                  flag.rollout_percentage[1])

\* db.query(FeatureFlag).filter(FeatureFlag.flag_name == flag_name).first():
\* the position of the first matching row, 0 when there is none
first(db, flag_name) ==
    LET hits == {i \in 1..Len(db) : db[i].flag_name = flag_name}
    IN  IF hits = {} THEN 0
        ELSE CHOOSE i \in hits : \A j \in hits : i <= j

\* One entry of the evaluation list.
user_flag(flag, user_id) ==
    [flag_name   |-> flag.flag_name,
     enabled     |-> is_flag_enabled_for_user(flag, user_id),
     description |-> flag.description]

\* Mutant: every entry carries the decision computed for the first flag.
evaluate_flags_for_user_stale(db, user_id) ==
    [result |-> [i \in 1..Len(db) |->
                    [user_flag(db[i], user_id) EXCEPT
                        !.enabled = is_flag_enabled_for_user(db[1], user_id)]],
     calls  |-> [i \in 1..Len(db) |-> db[i].flag_name]]

\* Returns the list and, as `calls`, the flags the evaluator was invoked on.
evaluate_flags_for_user(db, user_id) ==
    [result |-> [i \in 1..Len(db) |-> user_flag(db[i], user_id)],
     calls  |-> [i \in 1..Len(db) |-> db[i].flag_name]]

\* Mutant: the query lacks its filter and takes the first row of the table.
evaluate_single_flag_for_user_unfiltered(db, flag_name, user_id) ==
    IF Len(db) = 0 THEN [result |-> None, calls |-> <<>>]
    ELSE [result |-> Some(user_flag(db[1], user_id)),
          calls  |-> <<db[1].flag_name>>]

evaluate_single_flag_for_user(db, flag_name, user_id) ==
    LET i == first(db, flag_name)
    IN  IF i = 0 THEN [result |-> None, calls |-> <<>>]
        ELSE [result |-> Some(user_flag(db[i], user_id)),
              calls  |-> <<db[i].flag_name>>]

(***************************************************************************)
(* Request validation (pydantic)                                           *)
(***************************************************************************)
Fields == {"status", "rollout_percentage", "description"}

\* Mutant: only the upper limit is checked.
validate_rollout_percentage_no_floor(v) == v = None \/ v[1] <= 100

\* Field(ge=0, le=100) and the validator of the same range
validate_rollout_percentage(v) == v = None \/ (v[1] >= 0 /\ v[1] <= 100)

\* Field(..., min_length=1)
validate_flag_name(flag_name) == flag_name # ""

\* FeatureFlagCreate: status is a bool, the others are optional.  The
\* payloads tried: every valid one, and one per out-of-range percentage.
CreateBodies ==
    [status : BOOLEAN,
     rollout_percentage : ValidRollouts,
     description : Descriptions]
    \cup
    [status : {TRUE},
     rollout_percentage : BadRollouts,
     description : {None}]

\* FeatureFlagUpdate: every field optional with default None; fields_set is
\* what the payload carried, the keys of dict(exclude_unset=True)
FeatureFlagUpdate(fields_set, status, rollout_percentage, description) ==
    [fields_set         |-> fields_set,
     status             |-> status,
     rollout_percentage |-> rollout_percentage,
     description        |-> description]

\* The payloads tried: every payload of valid values, and a few carrying an
\* out-of-range percentage or an explicit null status.
UpdateBodies ==
    {b \in [fields_set : SUBSET Fields,
            status : {None, Some(TRUE), Some(FALSE)},
            rollout_percentage : ValidRollouts,
            description : Descriptions] :
        /\ \A f \in Fields \ b.fields_set : b[f] = None
        /\ "status" \in b.fields_set => b.status # None}
    \cup
    {FeatureFlagUpdate({"rollout_percentage"}, None, r, None) : r \in BadRollouts}
    \cup
    {FeatureFlagUpdate({"status", "rollout_percentage"}, Some(TRUE), Some(101), None),
     FeatureFlagUpdate({"status"}, None, None, None),
     FeatureFlagUpdate({"status", "rollout_percentage"}, None, Some(0), None)}

(***************************************************************************)
(* Requests and responses                                                  *)
(***************************************************************************)
Request(op, flag_name, user_id, body) ==
    [op |-> op, flag_name |-> flag_name, user_id |-> user_id, body |-> body]

Response(code, body, calls) == [code |-> code, body |-> body, calls |-> calls]

\* The rows of db without row i
Remove(db, i) == [j \in 1..(Len(db) - 1) |-> IF j < i THEN db[j] ELSE db[j + 1]]

\* status = Column(Boolean, nullable=False): the commit of a row whose status
\* was set to None raises IntegrityError
not_null_violation(b) == "status" \in b.fields_set /\ b.status = None

\* Mutant: dict() without exclude_unset, so an absent percentage or
\* description overwrites the stored one with its default None.
setattrs_unset_too(flag, b) ==
    [flag EXCEPT
        !.status = IF "status" \in b.fields_set THEN b.status[1] ELSE @,
        !.rollout_percentage = b.rollout_percentage,
        !.description = b.description]

\* setattr(flag, field, value) for every field of update_data (a status of
\* None never reaches the table, see not_null_violation)
setattrs(flag, b) ==
    [flag EXCEPT
        !.status = IF "status" \in b.fields_set THEN b.status[1] ELSE @,
        !.rollout_percentage = IF "rollout_percentage" \in b.fields_set
                               THEN b.rollout_percentage ELSE @,
        !.description = IF "description" \in b.fields_set
                        THEN b.description ELSE @]

\* Mutant: the column is not declared unique.
unique_violation_never(db, flag_name) == FALSE

\* flag_name = Column(..., unique=True): the INSERT of a second row with the
\* name raises IntegrityError
unique_violation(db, flag_name) == first(db, flag_name) # 0

\* onupdate=func.now(): the UPDATE is emitted only for a row with a net change
onupdate(old, new) ==
    IF new = old THEN old ELSE [new EXCEPT !.updated_at = now]

(***************************************************************************)
(* Handlers of app/main.py.  Each runs to completion on the event loop     *)
(* (async def without await), so each is one atomic step.                  *)
(***************************************************************************)
NoRequest == Request("none", "", "", None)

NoResponse == Response(0, None, <<>>)

create_feature_flag ==
    \E flag_name \in Names \cup {""}, flag_data \in CreateBodies :
        LET db_flag == [flag_name          |-> flag_name,
                        status             |-> flag_data.status,
                        rollout_percentage |-> flag_data.rollout_percentage,
                        description        |-> flag_data.description,
                        created_at         |-> now,
                        updated_at         |-> now]
        IN  /\ request' = Request("create_feature_flag", flag_name, "", flag_data)
            /\ IF ~(validate_flag_name(flag_name)
                    /\ validate_rollout_percentage(flag_data.rollout_percentage))
               THEN /\ response' = Response(422, None, <<>>)
                    /\ UNCHANGED flags
               ELSE IF unique_violation(flags, flag_name)
               THEN \* IntegrityError: rollback
                    /\ response' = Response(400, None, <<>>)
                    /\ UNCHANGED flags
               ELSE /\ flags' = Append(flags, db_flag)
                    /\ response' = Response(201, Some(db_flag), <<>>)
            /\ UNCHANGED now

list_feature_flags ==
    /\ request' = Request("list_feature_flags", "", "", None)
    /\ response' = Response(200, Some(flags), <<>>)
    /\ UNCHANGED <<flags, now>>

get_feature_flag ==
    \E flag_name \in Names :
        LET i == first(flags, flag_name)
        IN  /\ request' = Request("get_feature_flag", flag_name, "", None)
            /\ response' = IF i = 0 THEN Response(404, None, <<>>)
                           ELSE Response(200, Some(flags[i]), <<>>)
            /\ UNCHANGED <<flags, now>>

update_feature_flag ==
    \E flag_name \in Names, flag_update \in UpdateBodies :
        LET i == first(flags, flag_name)
        IN  /\ request' = Request("update_feature_flag", flag_name, "", flag_update)
            /\ IF ~validate_rollout_percentage(flag_update.rollout_percentage)
               THEN /\ response' = Response(422, None, <<>>)
                    /\ UNCHANGED flags
               ELSE IF i = 0
               THEN /\ response' = Response(404, None, <<>>)
                    /\ UNCHANGED flags
               ELSE IF not_null_violation(flag_update)
               THEN \* IntegrityError in db.commit(), not caught: the
                    \* transaction is rolled back when the session closes
                    /\ response' = Response(500, None, <<>>)
                    /\ UNCHANGED flags
               ELSE LET flag == onupdate(flags[i], setattrs(flags[i], flag_update))
                    IN  /\ flags' = [flags EXCEPT ![i] = flag]
                        /\ response' = Response(200, Some(flag), <<>>)
            /\ UNCHANGED now

delete_feature_flag ==
    \E flag_name \in Names :
        LET i == first(flags, flag_name)
        IN  /\ request' = Request("delete_feature_flag", flag_name, "", None)
            /\ IF i = 0
               THEN /\ response' = Response(404, None, <<>>)
                    /\ UNCHANGED flags
               ELSE /\ flags' = Remove(flags, i)
                    /\ response' = Response(204, None, <<>>)
            /\ UNCHANGED now

get_user_flags ==
    \E user_id \in Users :
        LET user_flags == evaluate_flags_for_user(flags, user_id)
        IN  /\ request' = Request("get_user_flags", "", user_id, None)
            /\ response' = Response(200,
                                    Some([user_id |-> user_id,
                                          flags   |-> user_flags.result]),
                                    user_flags.calls)
            /\ UNCHANGED <<flags, now>>

get_user_flag ==
    \E user_id \in Users, flag_name \in Names :
        LET result == evaluate_single_flag_for_user(flags, flag_name, user_id)
        IN  /\ request' = Request("get_user_flag", flag_name, user_id, None)
            /\ response' = IF result.result = None
                           THEN Response(404, None, result.calls)
                           ELSE Response(200, result.result, result.calls)
            /\ UNCHANGED <<flags, now>>

\* func.now() moves forward between requests
Tick ==
    /\ now < MaxClock
    /\ now' = now + 1
    /\ UNCHANGED <<flags, request, response>>

(***************************************************************************)
(* The service                                                             *)
(***************************************************************************)
Init ==
    /\ flags = <<>>
    /\ now = 0
    /\ request = NoRequest
    /\ response = NoResponse
    /\ memo = None

Next ==
    \/ create_feature_flag /\ UNCHANGED memo
    \/ list_feature_flags /\ UNCHANGED memo
    \/ get_feature_flag /\ UNCHANGED memo
    \/ update_feature_flag /\ UNCHANGED memo
    \/ delete_feature_flag /\ UNCHANGED memo
    \/ get_user_flags /\ UNCHANGED memo
    \/ get_user_flag /\ UNCHANGED memo

Spec == Init /\ [][Next]_vars

(***************************************************************************)
(* The update handler under a moving clock: the table is as it stands at   *)
(* time 0 after "beta" alone, or "beta" and then "checkout-v2", were       *)
(* created with the defaults.                                              *)
(***************************************************************************)
created(flag_name, at) ==
    [flag_name          |-> flag_name,
     status             |-> FALSE,
     rollout_percentage |-> None,
     description        |-> None,
     created_at         |-> at,
     updated_at         |-> at]

ClockInit ==
    /\ now = 0
    /\ flags \in {<<created("beta", 0)>>,
                  <<created("beta", 0), created("checkout-v2", 0)>>}
    /\ request = NoRequest
    /\ response = NoResponse
    /\ memo = None

ClockNext ==
    \/ update_feature_flag /\ UNCHANGED memo
    \/ Tick /\ UNCHANGED memo

ClockSpec == ClockInit /\ [][ClockNext]_vars

(***************************************************************************)
(* The evaluation, update and delete handlers with one remembered          *)
(* evaluation, from the tables of ClockInit.  memo holds the user, the     *)
(* flag name and the decision of a single-flag evaluation, and whether     *)
(* another request changed the table or evaluated for another user since;  *)
(* it is dropped by the step that changes or deletes the record of its     *)
(* flag.                                                                   *)
(***************************************************************************)
\* memo after a step that is not the remembering one
kept ==
    IF memo = None THEN None
    ELSE LET i == first(flags, memo[1].flag_name)
             j == first(flags', memo[1].flag_name)
         IN  IF i = 0 \/ j = 0 THEN None
             ELSE IF flags'[j] # flags[i] THEN None
             ELSE Some([memo[1] EXCEPT
                        !.between = @ \/ flags' # flags
                                      \/ (request'.user_id # ""
                                          /\ request'.user_id # memo[1].user_id)])

remembered ==
    Some([user_id   |-> request'.user_id,
          flag_name |-> request'.flag_name,
          enabled   |-> response'.body[1].enabled,
          between   |-> FALSE])

DetNext ==
    \/ update_feature_flag /\ memo' = kept
    \/ delete_feature_flag /\ memo' = kept
    \/ get_user_flags /\ memo' = kept
    \/ get_user_flag /\ memo' = kept
    \/ get_user_flag /\ response'.code = 200 /\ memo' = remembered

DetSpec == ClockInit /\ [][DetNext]_vars

(***************************************************************************)
(* Properties                                                              *)
(***************************************************************************)
\* The stored row of a name that is in the table
stored(flag_name) == flags[first(flags, flag_name)]

\* The last request was a single-flag evaluation that found its flag
SingleEvaluated ==
    /\ request.op = "get_user_flag"
    /\ response.code = 200

\* The last request was a bulk evaluation
BulkEvaluated == request.op = "get_user_flags"

\* C1: for an enabled flag with a rollout percentage p, evaluation returns
\* true exactly when the bucket of (user, flag name) is strictly less than p.
C1_StrictThreshold ==
    SingleEvaluated =>
        LET flag == stored(request.flag_name)
        IN  (flag.status /\ flag.rollout_percentage # None) =>
                (response.body[1].enabled <=>
                    FloatLess(hash_user_flag(request.user_id, flag.flag_name),
                              flag.rollout_percentage[1]))

\* C2: an enabled flag with rollout percentage 0 evaluates to false for every
\* user, and one with rollout percentage 100 evaluates to true for every user.
C2_Boundary ==
    SingleEvaluated =>
        LET flag == stored(request.flag_name)
        IN  /\ (flag.status /\ flag.rollout_percentage = Some(0)) =>
                    ~response.body[1].enabled
            /\ (flag.status /\ flag.rollout_percentage = Some(100)) =>
                    response.body[1].enabled

\* C3: the bucket value hashed for an evaluated (user, flag) lies in [0, 100):
\* it is never equal to 100.
C3_BucketRange ==
    SingleEvaluated =>
        LET flag   == stored(request.flag_name)
            bucket == hash_user_flag(request.user_id, flag.flag_name)
        IN  (flag.status /\ flag.rollout_percentage # None) =>
                /\ BigLeq(<<0, 0>>, bucket.num)
                /\ FloatLess(bucket, 100)

\* C4: a flag whose status is false evaluates to false for every user,
\* whatever its rollout percentage, in the single-flag and in the bulk
\* evaluation.
C4_KillSwitch ==
    /\ SingleEvaluated =>
           (~stored(request.flag_name).status => ~response.body[1].enabled)
    /\ BulkEvaluated =>
           \A i \in 1..Len(response.body[1].flags), j \in 1..Len(flags) :
               (/\ response.body[1].flags[i].flag_name = flags[j].flag_name
                /\ ~flags[j].status)
                   => ~response.body[1].flags[i].enabled

\* C4 witness: a bulk evaluation over a disabled flag at 100 percent and a
\* disabled flag without a percentage
C4_Witness ==
    /\ BulkEvaluated
    /\ Len(flags) = 2
    /\ ~flags[1].status /\ flags[1].rollout_percentage = Some(100)
    /\ ~flags[2].status /\ flags[2].rollout_percentage = None
    /\ Len(response.body[1].flags) = 2

\* C5: a flag with status true and no rollout percentage evaluates to true
\* for every user.
C5_FullRollout ==
    /\ SingleEvaluated =>
           LET flag == stored(request.flag_name)
           IN  (flag.status /\ flag.rollout_percentage = None) =>
                   response.body[1].enabled
    /\ BulkEvaluated =>
           \A i \in 1..Len(response.body[1].flags), j \in 1..Len(flags) :
               (/\ response.body[1].flags[i].flag_name = flags[j].flag_name
                /\ flags[j].status
                /\ flags[j].rollout_percentage = None)
                   => response.body[1].flags[i].enabled

\* C5 witness: the user whose bucket is the largest possible evaluates an
\* enabled flag that has no percentage
C5_Witness ==
    /\ SingleEvaluated
    /\ request.user_id = "user-3605118390"
    /\ request.flag_name = "beta"
    /\ stored("beta").status
    /\ stored("beta").rollout_percentage = None
    /\ response.body[1].enabled

\* C6: every stored rollout percentage is absent or within [0, 100], and a
\* create or update carrying a percentage outside [0, 100] is rejected and
\* leaves the table unchanged.
StoredRolloutsInRange ==
    \A i \in 1..Len(flags) :
        \/ flags[i].rollout_percentage = None
        \/ /\ flags[i].rollout_percentage[1] >= 0
           /\ flags[i].rollout_percentage[1] <= 100

CarriesOutOfRange(req) ==
    /\ req.op \in {"create_feature_flag", "update_feature_flag"}
    /\ req.body.rollout_percentage # None
    /\ \/ req.body.rollout_percentage[1] < 0
       \/ req.body.rollout_percentage[1] > 100

C6_RolloutRange ==
    /\ []StoredRolloutsInRange
    /\ [][CarriesOutOfRange(request') =>
            (response'.code = 422 /\ flags' = flags)]_vars

\* C6 witness: an update carrying 101 was rejected while the flag it names
\* is stored with the percentage 100
C6_Witness ==
    /\ request.op = "update_feature_flag"
    /\ request.body.rollout_percentage = Some(101)
    /\ response.code = 422
    /\ \E i \in 1..Len(flags) :
           /\ flags[i].flag_name = request.flag_name
           /\ flags[i].rollout_percentage = Some(100)

\* C7: single-flag evaluation of a name that is not in the table signals not
\* found without invoking the evaluator, and a name that is in the table
\* yields the evaluation of that flag.
C7_SingleNotFound ==
    request.op = "get_user_flag" =>
        IF \E i \in 1..Len(flags) : flags[i].flag_name = request.flag_name
        THEN /\ response.code = 200
             /\ response.body # None
             /\ response.body[1].flag_name = request.flag_name
             /\ response.calls = <<request.flag_name>>
        ELSE /\ response.code = 404
             /\ response.body = None
             /\ response.calls = <<>>

\* C7 witness: not found for one name while the other flag is stored
C7_Witness ==
    /\ request.op = "get_user_flag"
    /\ response.code = 404
    /\ Len(flags) = 1

\* C8: bulk evaluation returns one entry per stored flag in the table's order;
\* each entry is the evaluation of that flag alone, whatever other flags are
\* stored, and equals the single-flag evaluation of the same flag and user.
C8_BulkIndependent ==
    BulkEvaluated =>
        LET out == response.body[1].flags
            user_id == request.user_id
        IN  /\ response.body[1].user_id = user_id
            /\ Len(out) = Len(flags)
            /\ \A i \in 1..Len(flags) :
                   /\ out[i].flag_name = flags[i].flag_name
                   /\ out[i].description = flags[i].description
                   /\ out[i].enabled = is_flag_enabled_for_user(flags[i], user_id)
                   /\ out[i] = evaluate_flags_for_user(<<flags[i]>>, user_id).result[1]
                   /\ Some(out[i]) =
                        evaluate_single_flag_for_user(
                            flags, flags[i].flag_name, user_id).result

\* C8 witness: a bulk evaluation of two flags that evaluate differently, the
\* first off and the second on
C8_Witness ==
    /\ BulkEvaluated
    /\ Len(response.body[1].flags) = 2
    /\ ~response.body[1].flags[1].enabled
    /\ response.body[1].flags[2].enabled

Columns ==
    {"flag_name", "status", "rollout_percentage", "description",
     "created_at", "updated_at"}

\* The rows at position i before and after a step agree outside `changeable`
RowKept(i, changeable) ==
    \A c \in Columns \ changeable : flags'[i][c] = flags[i][c]

NoRowNamed(flag_name) ==
    \A i \in 1..Len(flags) : flags[i].flag_name # flag_name

NamesUnique ==
    \A i, j \in 1..Len(flags) :
        flags[i].flag_name = flags[j].flag_name => i = j

CreatesExisting(req) ==
    /\ req.op = "create_feature_flag"
    /\ ~NoRowNamed(req.flag_name)

C10_UniqueNames ==
    /\ []NamesUnique
    /\ [][CreatesExisting(request') =>
            (response'.code = 400 /\ flags' = flags)]_vars

\* C10 as amended: the create of an existing name is rejected and leaves the
\* table unchanged, with HTTP 400 when its payload passes validation and with
\* the validation error 422 when it carries an out-of-range percentage.
C10_UniqueNamesAmended ==
    /\ []NamesUnique
    /\ [][CreatesExisting(request') =>
            /\ response'.code = IF CarriesOutOfRange(request') THEN 422 ELSE 400
            /\ flags' = flags]_vars

\* C10 witness: a valid create of a stored name was answered 400 while two
\* flags are stored
C10_Witness ==
    /\ request.op = "create_feature_flag"
    /\ response.code = 400
    /\ Len(flags) = 2
    /\ \E i \in 1..2 : flags[i].flag_name = request.flag_name

\* C11: with the flag record unchanged since a remembered evaluation, a later
\* evaluation of the same flag for the same user returns the remembered
\* decision, whatever requests for other users or other flags came between;
\* and an evaluation changes neither the table nor the clock.
SameAsRemembered ==
    memo # None =>
        /\ (/\ SingleEvaluated
            /\ request.user_id = memo[1].user_id
            /\ request.flag_name = memo[1].flag_name)
               => response.body[1].enabled = memo[1].enabled
        /\ (BulkEvaluated /\ request.user_id = memo[1].user_id) =>
               \A i \in 1..Len(response.body[1].flags) :
                   response.body[1].flags[i].flag_name = memo[1].flag_name
                       => response.body[1].flags[i].enabled = memo[1].enabled

====
